---------------------------- MODULE Spec2Model ----------------------------
(***************************************************************************)
(* A model of ChemMate's equation balancer (src/algo.py) and of the way    *)
(* the web layer (src/app.py) shares one balancer between requests.        *)
(*                                                                         *)
(* Python strings are sequences of one-character strings, indexed from 0   *)
(* through At and Slice as the source indexes them.  A dict is a function  *)
(* whose DOMAIN is its key set.                                            *)
(***************************************************************************)
EXTENDS Integers, Sequences, FiniteSets, TLC

VARIABLES
    compound,       \* _parse_compound: the argument
    elements,       \* _parse_compound: the returned dict
    parseDone,      \* _parse_compound has returned
    equation,       \* parse_equation: the argument
    typed,          \* parse_equation: how many pieces the argument was typed in
    split,          \* parse_equation: what it returned or raised
    compounds,      \* self.compounds of the balancer parse_equation ran on
    matrix,         \* _solve_matrix: the argument
    solved,         \* _solve_matrix: what it returned or raised
    formatArgs,     \* get_balanced_equation: coefficients, reactants, products
    balanced_equation,  \* get_balanced_equation: the returned string
    formatDone,     \* get_balanced_equation has returned
    calls           \* per request: where its balance call stands, and its locals

parseVars == <<compound, elements, parseDone>>
splitVars == <<equation, typed, split>>
solveVars == <<matrix, solved>>
formatVars == <<formatArgs, balanced_equation, formatDone>>
vars == <<parseVars, splitVars, compounds, solveVars, formatVars, calls>>

\* what each specification below leaves alone
outsideParse == <<splitVars, compounds, solveVars, formatVars, calls>>
outsideSplit == <<parseVars, solveVars, formatVars, calls>>
outsideSolve == <<parseVars, splitVars, compounds, formatVars, calls>>
outsideFormat == <<parseVars, splitVars, compounds, solveVars, calls>>
outsideCalls == <<parseVars, splitVars, solveVars, formatVars>>

-----------------------------------------------------------------------------
(* Bounds of the model. *)

MaxCompoundLen == 7
MaxEquationPieces == 5
MaxEntry == 2
MaxCoefficient == 4
NumCalls == 2
MaxSide == 2

-----------------------------------------------------------------------------
(* Python's str and int primitives. *)

Upper == {"A", "B", "C", "D", "E", "F", "G", "H", "I", "J", "K", "L", "M",
          "N", "O", "P", "Q", "R", "S", "T", "U", "V", "W", "X", "Y", "Z"}
Lower == {"a", "b", "c", "d", "e", "f", "g", "h", "i", "j", "k", "l", "m",
          "n", "o", "p", "q", "r", "s", "t", "u", "v", "w", "x", "y", "z"}
Digit == {"0", "1", "2", "3", "4", "5", "6", "7", "8", "9"}

isupper(c) == c \in Upper
islower(c) == c \in Lower
isdigit(c) == c \in Digit

\* s[i], Python's 0-based index
At(s, i) == s[i + 1]

\* s[a:b] for 0 <= a; an empty slice when b <= a
Slice(s, a, b) ==
    LET hi == IF b > Len(s) THEN Len(s) ELSE b
    IN  IF hi <= a THEN <<>> ELSE SubSeq(s, a + 1, hi)

DigitVal(c) ==
    CASE c = "0" -> 0 [] c = "1" -> 1 [] c = "2" -> 2 [] c = "3" -> 3
      [] c = "4" -> 4 [] c = "5" -> 5 [] c = "6" -> 6 [] c = "7" -> 7
      [] c = "8" -> 8 [] c = "9" -> 9

\* int(subscript) of a non-empty run of decimal digits
RECURSIVE int(_)
int(digits) ==
    IF Len(digits) = 0 THEN 0
    ELSE 10 * int(SubSeq(digits, 1, Len(digits) - 1)) + DigitVal(digits[Len(digits)])

DigitChars == <<"0", "1", "2", "3", "4", "5", "6", "7", "8", "9">>

RECURSIVE Decimal(_)
Decimal(n) ==
    IF n < 10 THEN <<DigitChars[n + 1]>>
    ELSE Append(Decimal(n \div 10), DigitChars[(n % 10) + 1])

\* str(n), what an f-string renders an int as
str(n) == IF n < 0 THEN <<"-">> \o Decimal(-n) ELSE Decimal(n)

\* sep.join(parts)
RECURSIVE join(_, _)
join(sep, parts) ==
    IF Len(parts) = 0 THEN <<>>
    ELSE IF Len(parts) = 1 THEN parts[1]
    ELSE parts[1] \o sep \o join(sep, Tail(parts))

\* old occurs at the head of s
StartsWith(s, old) == Len(s) >= Len(old) /\ SubSeq(s, 1, Len(old)) = old

\* s.replace(old, new): every occurrence, left to right, without overlap
RECURSIVE replace(_, _, _)
replace(s, old, new) ==
    IF Len(s) < Len(old) THEN s
    ELSE IF StartsWith(s, old)
    THEN new \o replace(SubSeq(s, Len(old) + 1, Len(s)), old, new)
    ELSE <<Head(s)>> \o replace(Tail(s), old, new)

\* s.split(sep): the pieces between the occurrences of sep, empty ones kept
RECURSIVE SplitFrom(_, _, _)
SplitFrom(s, sep, piece) ==
    IF Len(s) < Len(sep) THEN <<piece \o s>>
    ELSE IF StartsWith(s, sep)
    THEN <<piece>> \o SplitFrom(SubSeq(s, Len(sep) + 1, Len(s)), sep, <<>>)
    ELSE SplitFrom(Tail(s), sep, Append(piece, Head(s)))

str_split(s, sep) == SplitFrom(s, sep, <<>>)

-----------------------------------------------------------------------------
(* parse_equation, src/algo.py:19-34. *)

Arrow == <<"-", "-", ">">>
LongArrow == <<"\\", "l", "o", "n", "g", "r", "i", "g", "h", "t", "a", "r", "r", "o", "w">>

\* line 21
Normalize(eq) == replace(replace(replace(eq, <<" ">>, <<>>), <<"_">>, <<>>), LongArrow, Arrow)

NoLists == <<>>

\* lines 21-34: the outcome, and the lists when it returns
parse_equation(eq) ==
    LET sides == str_split(Normalize(eq), Arrow)
    IN  IF Len(sides) # 2
        THEN [outcome |-> "ValueError", reactants |-> NoLists, products |-> NoLists]
        ELSE [outcome |-> "returned",
              reactants |-> str_split(sides[1], <<"+">>),
              products |-> str_split(sides[2], <<"+">>)]

-----------------------------------------------------------------------------
(* _parse_compound, src/algo.py:36-97. *)

EmptyDict == [e \in {} |-> 0]

Get(d, k) == IF k \in DOMAIN d THEN d[k] ELSE 0

\* lines 90-93: elements[element] += count, or a new key
AddCount(d, element, count) ==
    [e \in DOMAIN d \cup {element} |->
        IF e = element THEN Get(d, e) + count ELSE d[e]]

\* A merge that forgets the group's multiplier.
MergeGroupUnscaled(d, sub_elements, count) ==
    [e \in DOMAIN d \cup DOMAIN sub_elements |-> Get(d, e) + Get(sub_elements, e)]

\* lines 66-70: every item of sub_elements, times count, added into elements
MergeGroup(d, sub_elements, count) ==
    [e \in DOMAIN d \cup DOMAIN sub_elements |->
        Get(d, e) + Get(sub_elements, e) * count]

\* lines 48-53: the index after the scan for the matching ')'
RECURSIVE ScanGroup(_, _, _)
ScanGroup(s, j, paren_count) ==
    IF paren_count > 0 /\ j < Len(s)
    THEN ScanGroup(s, j + 1,
                   IF At(s, j) = "(" THEN paren_count + 1
                   ELSE IF At(s, j) = ")" THEN paren_count - 1
                   ELSE paren_count)
    ELSE j

\* lines 60-62 and 84-86: the index after a run of digits starting at j
RECURSIVE ScanDigits(_, _)
ScanDigits(s, j) ==
    IF j < Len(s) /\ isdigit(At(s, j)) THEN ScanDigits(s, j + 1) ELSE j

\* lines 64 and 88: int(subscript) if subscript else 1
SubscriptCount(subscript) == IF subscript # <<>> THEN int(subscript) ELSE 1

\* line 55: compound[i + 1: j - 1]
GroupContent(s, i, j) == Slice(s, i + 1, j - 1)

RECURSIVE _parse_compound(_), ParseLoop(_, _, _)

\* lines 43-96: the while loop, from index i with the dict built so far
ParseLoop(s, i, d) ==
    IF i >= Len(s) THEN d
    ELSE IF At(s, i) = "("
    THEN LET j == ScanGroup(s, i + 1, 1)
             sub_elements == _parse_compound(GroupContent(s, i, j))
             k == ScanDigits(s, j)
             count == SubscriptCount(Slice(s, j, k))
         IN  ParseLoop(s, k, MergeGroup(d, sub_elements, count))
    ELSE IF isupper(At(s, i))
    THEN LET two == i + 1 < Len(s) /\ islower(At(s, i + 1))
             element == IF two THEN Slice(s, i, i + 2) ELSE <<At(s, i)>>
             i1 == IF two THEN i + 2 ELSE i + 1
             k == ScanDigits(s, i1)
             count == SubscriptCount(Slice(s, i1, k))
         IN  ParseLoop(s, k, AddCount(d, element, count))
    ELSE ParseLoop(s, i + 1, d)

_parse_compound(s) == ParseLoop(s, 0, EmptyDict)

-----------------------------------------------------------------------------
(* Exact rational arithmetic, as sympy's Rational: p / q in lowest terms    *)
(* with q > 0.                                                              *)

Abs(n) == IF n < 0 THEN -n ELSE n

\* math.gcd: the greatest common divisor of |a| and |b|, gcd(0, 0) = 0
RECURSIVE gcd(_, _)
gcd(a, b) == IF b = 0 THEN Abs(a) ELSE gcd(b, Abs(a) % Abs(b))

\* sympy.ilcm of two integers: 0 when either is 0
ilcm(a, b) == IF a = 0 \/ b = 0 THEN 0 ELSE (Abs(a) \div gcd(a, b)) * Abs(b)

\* Python's a // b, the floor of a / b, for b # 0
FloorDiv(a, b) == IF b > 0 THEN a \div b ELSE (-a) \div (-b)

Rat(p, q) ==
    LET g == gcd(p, q)
        sign == IF q < 0 THEN -1 ELSE 1
    IN  [p |-> sign * (p \div g), q |-> sign * (q \div g)]

Zero == [p |-> 0, q |-> 1]
One == [p |-> 1, q |-> 1]
FromInt(n) == [p |-> n, q |-> 1]
RatNeg(x) == [p |-> -x.p, q |-> x.q]
RatSub(x, y) == Rat(x.p * y.q - y.p * x.q, x.q * y.q)
RatMul(x, y) == Rat(x.p * y.p, x.q * y.q)
RatDiv(x, y) == Rat(x.p * y.q, x.q * y.p)

\* int(x): truncation toward zero
IntOf(x) == IF x.p >= 0 THEN x.p \div x.q ELSE -((-x.p) \div x.q)

-----------------------------------------------------------------------------
(* sympy.Matrix(matrix).nullspace(), called at src/algo.py:174-175: the     *)
(* reduced row-echelon form over the rationals, then one basis vector per   *)
(* free column, in the order of the free columns.                           *)

Rows(m) == Len(m)
\* sympy.Matrix([]) is the 0 x 0 matrix
Cols(m) == IF Len(m) = 0 THEN 0 ELSE Len(m[1])

Min(S) == CHOOSE x \in S : \A y \in S : x <= y

\* Gauss-Jordan elimination from (row, col) on, the pivot columns so far kept
RECURSIVE RrefFrom(_, _, _, _)
RrefFrom(m, row, col, pivots) ==
    IF row > Rows(m) \/ col > Cols(m)
    THEN [reduced |-> m, pivots |-> pivots]
    ELSE LET candidates == {r \in row..Rows(m) : m[r][col] # Zero}
         IN  IF candidates = {}
             THEN RrefFrom(m, row, col + 1, pivots)
             ELSE LET r == Min(candidates)
                      pivotRow == [c \in 1..Cols(m) |-> RatDiv(m[r][c], m[r][col])]
                      swapped == [m EXCEPT ![r] = m[row], ![row] = pivotRow]
                      cleared ==
                          [k \in 1..Rows(m) |->
                              IF k = row THEN pivotRow
                              ELSE [c \in 1..Cols(m) |->
                                      RatSub(swapped[k][c],
                                             RatMul(swapped[k][col], pivotRow[c]))]]
                  IN  RrefFrom(cleared, row + 1, col + 1, Append(pivots, col))

rref(m) ==
    RrefFrom([r \in 1..Rows(m) |-> [c \in 1..Cols(m) |-> FromInt(m[r][c])]], 1, 1, <<>>)

\* the columns without a pivot, given the pivot columns
FreeOf(m, pivots) == (1..Cols(m)) \ {pivots[k] : k \in 1..Len(pivots)}

FreeColumns(m) == FreeOf(m, rref(m).pivots)

\* the basis vector of the free column: 1 there, minus the reduced entry of
\* that column at each pivot column, 0 at the other free columns
BasisVector(m, R, free) ==
    [c \in 1..Cols(m) |->
        IF c = free THEN One
        ELSE IF \E k \in 1..Len(R.pivots) : R.pivots[k] = c
        THEN RatNeg(R.reduced[CHOOSE k \in 1..Len(R.pivots) : R.pivots[k] = c][free])
        ELSE Zero]

\* the free columns in increasing order
RECURSIVE Ascending(_)
Ascending(S) == IF S = {} THEN <<>> ELSE <<Min(S)>> \o Ascending(S \ {Min(S)})

nullspace(m) ==
    LET R == rref(m)
        free == Ascending(FreeOf(m, R.pivots))
    IN  [k \in 1..Len(free) |-> BasisVector(m, R, free[k])]

-----------------------------------------------------------------------------
(* _solve_matrix, src/algo.py:173-197. *)

\* lines 181-184: the least common multiple of the denominators
RECURSIVE LcmDenominators(_)
LcmDenominators(sol) ==
    IF Len(sol) = 0 THEN 1
    ELSE ilcm(LcmDenominators(SubSeq(sol, 1, Len(sol) - 1)), sol[Len(sol)].q)

\* line 185
ScaleToIntegers(sol) ==
    [k \in 1..Len(sol) |-> IntOf(RatMul(sol[k], FromInt(LcmDenominators(sol))))]

\* lines 188-189: negate all when the smallest is negative
NormalizeSign(coeffs) ==
    IF \E k \in 1..Len(coeffs) : coeffs[k] < 0
    THEN [k \in 1..Len(coeffs) |-> -coeffs[k]]
    ELSE coeffs

\* The fold of the denominators' loop, ilcm, where gcd was meant.
RECURSIVE LcmOfAll(_)
LcmOfAll(coeffs) ==
    IF Len(coeffs) = 1 THEN coeffs[1]
    ELSE ilcm(LcmOfAll(SubSeq(coeffs, 1, Len(coeffs) - 1)), coeffs[Len(coeffs)])

\* lines 192-194: g = coeffs[0], then g = gcd(g, c) over the rest
RECURSIVE GcdOfAll(_)
GcdOfAll(coeffs) ==
    IF Len(coeffs) = 1 THEN coeffs[1]
    ELSE gcd(GcdOfAll(SubSeq(coeffs, 1, Len(coeffs) - 1)), coeffs[Len(coeffs)])

\* lines 173-197: the outcome, and the coefficients when it returns
_solve_matrix(m) ==
    LET ns == nullspace(m)
    IN  IF Len(ns) = 0
        THEN [outcome |-> "Exception", coeffs |-> <<>>]
        ELSE LET coeffs == NormalizeSign(ScaleToIntegers(ns[1]))
                 g == GcdOfAll(coeffs)
             IN  IF g = 0
                 THEN [outcome |-> "ZeroDivisionError", coeffs |-> <<>>]
                 ELSE [outcome |-> "returned",
                       coeffs |-> [k \in 1..Len(coeffs) |-> FloorDiv(coeffs[k], g)]]

-----------------------------------------------------------------------------
(* _build_matrix, src/algo.py:100-137. *)

\* lines 102-114: the elements of all the compounds
AllElements(reactants, products) ==
    UNION ({DOMAIN _parse_compound(reactants[i]) : i \in 1..Len(reactants)}
           \cup {DOMAIN _parse_compound(products[i]) : i \in 1..Len(products)})

\* line 118: list(all_elements) is one of the orders of the set
ElementLists(all_elements) ==
    {list \in [1..Cardinality(all_elements) -> all_elements] :
        \A e \in all_elements : \E k \in DOMAIN list : list[k] = e}

\* A reactant entry that keeps the sign of the count.
ReactantEntryUnsigned(count) == count

\* line 127: the negative coefficient of a reactant
ReactantEntry(count) == -count

\* lines 122-135: one row per element, reactant columns then product columns
MatrixRows(reactants, products, element_list) ==
    LET reactant_elements == [c \in 1..Len(reactants) |-> _parse_compound(reactants[c])]
        product_elements == [c \in 1..Len(products) |-> _parse_compound(products[c])]
    IN  [r \in 1..Len(element_list) |->
            [c \in 1..(Len(reactants) + Len(products)) |->
                IF c <= Len(reactants)
                THEN ReactantEntry(Get(reactant_elements[c], element_list[r]))
                ELSE Get(product_elements[c - Len(reactants)], element_list[r])]]

-----------------------------------------------------------------------------
(* get_balanced_equation, src/algo.py:200-223. *)

To == <<"\\", "t", "o">>
Plus == <<" ", "+", " ">>

\* lines 206-209 and 215-218: the compound, prefixed unless its coefficient is 1
Term(coef, cmpd) == IF coef = 1 THEN cmpd ELSE str(coef) \o cmpd

\* A product's coefficient read at the product's own index.
ProductCoefficientNoOffset(coefficients, reactants, i) == coefficients[i]

\* line 214: coefficients[i + len(reactants)], i counted from 1 here
ProductCoefficient(coefficients, reactants, i) == coefficients[i + Len(reactants)]

get_balanced_equation(coefficients, reactants, products) ==
    LET balanced_reactants ==
            [i \in 1..Len(reactants) |-> Term(coefficients[i], reactants[i])]
        balanced_products ==
            [i \in 1..Len(products) |->
                Term(ProductCoefficient(coefficients, reactants, i), products[i])]
    IN  join(Plus, balanced_reactants) \o To \o join(Plus, balanced_products)

-----------------------------------------------------------------------------
(* balance, src/algo.py:226-240, run alone on a balancer of its own: the    *)
(* outcome, and the balanced equation when it returns.                      *)

balance(eq) ==
    LET parsed == parse_equation(eq)
        element_list ==
            CHOOSE list \in ElementLists(AllElements(parsed.reactants, parsed.products)) : TRUE
        solution == _solve_matrix(MatrixRows(parsed.reactants, parsed.products, element_list))
    IN  IF parsed.outcome # "returned"
        THEN [outcome |-> parsed.outcome, text |-> <<>>]
        ELSE IF solution.outcome # "returned"
        THEN [outcome |-> solution.outcome, text |-> <<>>]
        ELSE [outcome |-> "returned",
              text |-> get_balanced_equation(solution.coeffs,
                                             parsed.reactants, parsed.products)]

-----------------------------------------------------------------------------
(* The formula parser applied to every compound string of the alphabet.    *)

CompoundAlphabet == {"A", "b", "(", ")", "2", "0"}

IdleParse ==
    /\ compound = <<>>
    /\ elements = EmptyDict
    /\ parseDone = FALSE

IdleSplit ==
    /\ equation = <<>>
    /\ typed = 0
    /\ split = [outcome |-> "none", reactants |-> NoLists, products |-> NoLists]

IdleSolve ==
    /\ matrix = <<>>
    /\ solved = [outcome |-> "none", coeffs |-> <<>>]

IdleFormat ==
    /\ formatArgs = [coefficients |-> <<>>, reactants |-> <<>>, products |-> <<>>]
    /\ balanced_equation = <<>>
    /\ formatDone = FALSE

NoCall ==
    [pc |-> "idle", equation |-> <<>>, reactants |-> NoLists, products |-> NoLists,
     matrix |-> <<>>, coefficients |-> <<>>, outcome |-> "none", text |-> <<>>]

IdleCalls == calls = [c \in 1..NumCalls |-> NoCall]

\* __init__, lines 15-17: self.compounds = []
FreshBalancer == compounds = <<>>

InitParse == IdleParse /\ IdleSplit /\ IdleSolve /\ IdleFormat /\ IdleCalls /\ FreshBalancer

TypeCompoundChar ==
    /\ ~parseDone
    /\ Len(compound) < MaxCompoundLen
    /\ \E c \in CompoundAlphabet : compound' = Append(compound, c)
    /\ UNCHANGED <<elements, parseDone, outsideParse>>

ParseCompound ==
    /\ ~parseDone
    /\ elements' = _parse_compound(compound)
    /\ parseDone' = TRUE
    /\ UNCHANGED <<compound, outsideParse>>

NextParse == TypeCompoundChar \/ ParseCompound

SpecParse == InitParse /\ [][NextParse]_vars

-----------------------------------------------------------------------------
(* What a well-formed formula denotes, read off the string position by      *)
(* position (1-based) without the parser: every occurrence of a symbol      *)
(* contributes its own subscript times the multiplier of every group        *)
(* around it.                                                               *)

CountIn(s, chars, a, b) == Cardinality({k \in a..b : s[k] \in chars})

\* the ')' that closes the '(' at position a
MatchClose(s, a) ==
    CHOOSE b \in (a + 1)..Len(s) :
        /\ CountIn(s, {"("}, a, b) = CountIn(s, {")"}, a, b)
        /\ \A k \in a..(b - 1) : CountIn(s, {"("}, a, k) > CountIn(s, {")"}, a, k)

\* the last position of the run of digits that starts right after position q
DigitRunEnd(s, q) ==
    CHOOSE e \in q..Len(s) :
        /\ \A k \in (q + 1)..e : s[k] \in Digit
        /\ e = Len(s) \/ s[e + 1] \notin Digit

\* the number written right after position q, 1 when none is written
NumberAfter(s, q) ==
    LET e == DigitRunEnd(s, q)
    IN  IF e = q THEN 1 ELSE int(SubSeq(s, q + 1, e))

SymbolEnd(s, p) == IF p < Len(s) /\ s[p + 1] \in Lower THEN p + 1 ELSE p
SymbolAt(s, p) == SubSeq(s, p, SymbolEnd(s, p))
Occurrences(s) == {p \in 1..Len(s) : s[p] \in Upper}
Enclosing(s, p) == {a \in 1..(p - 1) : s[a] = "(" /\ MatchClose(s, a) > p}

RECURSIVE GroupMultipliers(_, _)
GroupMultipliers(s, groups) ==
    IF groups = {} THEN 1
    ELSE LET a == CHOOSE x \in groups : TRUE
         IN  NumberAfter(s, MatchClose(s, a)) * GroupMultipliers(s, groups \ {a})

OccurrenceAtoms(s, p) ==
    NumberAfter(s, SymbolEnd(s, p)) * GroupMultipliers(s, Enclosing(s, p))

RECURSIVE SumAtoms(_, _)
SumAtoms(s, occs) ==
    IF occs = {} THEN 0
    ELSE LET p == CHOOSE x \in occs : TRUE
         IN  OccurrenceAtoms(s, p) + SumAtoms(s, occs \ {p})

DenotedCounts(s) ==
    [e \in {SymbolAt(s, p) : p \in Occurrences(s)} |->
        SumAtoms(s, {p \in Occurrences(s) : SymbolAt(s, p) = e})]

WellFormed(s) ==
    /\ \A k \in 1..Len(s) :
          /\ CountIn(s, {"("}, 1, k) >= CountIn(s, {")"}, 1, k)
          /\ s[k] \in Lower => k > 1 /\ s[k - 1] \in Upper
          /\ s[k] \in Digit => k > 1 /\ s[k - 1] \in Upper \cup Lower \cup Digit \cup {")"}
    /\ CountIn(s, {"("}, 1, Len(s)) = CountIn(s, {")"}, 1, Len(s))

\* C8: for every well-formed compound string, _parse_compound returns, for
\* each element, the sum over its occurrences of the occurrence's subscript
\* times the multipliers of all the groups that enclose it.
\* The example (AB2)3 yields {A: 3, B: 6}.
C8_ParseDistributesMultipliers ==
    /\ (parseDone /\ WellFormed(compound)) => elements = DenotedCounts(compound)
    /\ parseDone =>
          _parse_compound(<<"(", "A", "B", "2", ")", "3">>) = (<<"A">> :> 3 @@ <<"B">> :> 6)

\* a parsed nested group with multipliers at both levels, and an element that
\* occurs inside and outside a group
C8_Witness ==
    /\ parseDone
    /\ compound = <<"(", "(", "A", ")", "2", ")", "2">>
    /\ elements = (<<"A">> :> 4)

\* the last '(' of the string is followed by no ')'
Unterminated(s) ==
    \E a \in 1..Len(s) :
        /\ s[a] = "("
        /\ \A k \in (a + 1)..Len(s) : s[k] \notin {"(", ")"}

\* C9: a compound whose last '(' is never closed parses to the same counts
\* as the same string with the missing ')' appended.
C9_ImplicitCloseAtEnd ==
    (parseDone /\ Unterminated(compound)) =>
        elements = _parse_compound(Append(compound, ")"))

\* C10: every key of the returned mapping has a count of at least 1.
C10_CountsAtLeastOne ==
    parseDone => \A e \in DOMAIN elements : elements[e] >= 1

-----------------------------------------------------------------------------
(* The equation splitter applied to every string typed from the pieces.     *)

EquationPieces == {<<"H">>, <<"+">>, <<"-">>, <<">">>, <<" ">>, <<"_">>, LongArrow}

InitSplit == IdleParse /\ IdleSplit /\ IdleSolve /\ IdleFormat /\ IdleCalls /\ FreshBalancer

TypeEquationPiece ==
    /\ split.outcome = "none"
    /\ typed < MaxEquationPieces
    /\ \E piece \in EquationPieces : equation' = equation \o piece
    /\ typed' = typed + 1
    /\ UNCHANGED <<split, compounds, outsideSplit>>

ParseEquation ==
    /\ split.outcome = "none"
    /\ split' = parse_equation(equation)
    /\ compounds' = IF split'.outcome = "returned"
                     THEN split'.reactants \o split'.products
                     ELSE compounds
    /\ UNCHANGED <<equation, typed, outsideSplit>>

NextSplit == TypeEquationPiece \/ ParseEquation

SpecSplit == InitSplit /\ [][NextSplit]_vars

\* the positions at which sep occurs in s
OccurrencesOf(s, sep) ==
    {i \in 1..Len(s) : i + Len(sep) - 1 <= Len(s) /\ SubSeq(s, i, i + Len(sep) - 1) = sep}

\* the text before the first and after the last occurrence of sep
BeforeFirst(s, sep) ==
    LET first == CHOOSE i \in OccurrencesOf(s, sep) : \A k \in OccurrencesOf(s, sep) : i <= k
    IN  SubSeq(s, 1, first - 1)
AfterLast(s, sep) ==
    LET last == CHOOSE i \in OccurrencesOf(s, sep) : \A k \in OccurrencesOf(s, sep) : i >= k
    IN  SubSeq(s, last + Len(sep), Len(s))

Malformed(eq) ==
    \/ Cardinality(OccurrencesOf(Normalize(eq), Arrow)) # 1
    \/ BeforeFirst(Normalize(eq), Arrow) = <<>>
    \/ AfterLast(Normalize(eq), Arrow) = <<>>

\* C5: parse_equation fails whenever the normalized text does not hold the
\* separator exactly once or has an empty side, and on success returns two
\* non-empty lists of compounds.
C5_RejectsMalformedEquation ==
    /\ (split.outcome # "none" /\ Malformed(equation)) => split.outcome = "ValueError"
    /\ split.outcome = "returned" => Len(split.reactants) >= 1 /\ Len(split.products) >= 1

-----------------------------------------------------------------------------
(* The solver applied to every integer matrix of the shapes below.          *)

MatrixShapes ==
    {<<0, 0>>, <<1, 1>>, <<1, 2>>, <<2, 1>>, <<1, 3>>, <<2, 2>>, <<2, 3>>, <<3, 2>>}
Entries == (-MaxEntry)..MaxEntry
MatricesOf(rows, cols) == [1..rows -> [1..cols -> Entries]]

InitSolve ==
    /\ IdleParse /\ IdleSplit /\ IdleFormat /\ IdleCalls /\ FreshBalancer
    /\ matrix \in UNION {MatricesOf(shape[1], shape[2]) : shape \in MatrixShapes}
    /\ solved = [outcome |-> "none", coeffs |-> <<>>]

SolveMatrix ==
    /\ solved.outcome = "none"
    /\ solved' = _solve_matrix(matrix)
    /\ UNCHANGED <<matrix, outsideSolve>>

NextSolve == SolveMatrix

SpecSolve == InitSolve /\ [][NextSolve]_vars

\* C2: every entry of a returned coefficient vector is strictly positive.
C2_CoefficientsPositive ==
    solved.outcome = "returned" =>
        \A k \in 1..Len(solved.coeffs) : solved.coeffs[k] > 0

\* the positive integers that divide every entry of a vector that is not 0
RECURSIVE SumAbs(_)
SumAbs(coeffs) ==
    IF Len(coeffs) = 0 THEN 0 ELSE Abs(Head(coeffs)) + SumAbs(Tail(coeffs))
CommonDivisors(coeffs) ==
    {d \in 1..SumAbs(coeffs) : \A k \in 1..Len(coeffs) : coeffs[k] % d = 0}

\* C3: the entries of a returned coefficient vector have no common divisor
\* other than 1, and the division by their GCD never divides by zero.
C3_CoefficientsIrreducible ==
    /\ solved.outcome # "ZeroDivisionError"
    /\ solved.outcome = "returned" =>
          CommonDivisors(solved.coeffs) = {1}

\* a returned vector scaled from a null-space vector with two different
\* denominators and entries of both signs
C3_Witness ==
    /\ matrix = <<<<2, 0, 1>>, <<1, 2, 0>>>>
    /\ solved = [outcome |-> "returned", coeffs |-> <<2, -1, -4>>]

\* C4: coefficients are returned only for a matrix with exactly one free
\* column.
C4_OnlyOneFreeColumn ==
    solved.outcome = "returned" => Cardinality(FreeColumns(matrix)) = 1

-----------------------------------------------------------------------------
(* The formatter applied to coefficient vectors over the sides below.       *)

Fe == <<"F", "e">>
O2 == <<"O", "2">>
Fe2O3 == <<"F", "e", "2", "O", "3">>
H2 == <<"H", "2">>
H2O == <<"H", "2", "O">>
C == <<"C">>
CO2 == <<"C", "O", "2">>
Ca == <<"C", "a">>
CaOH2 == <<"C", "a", "(", "O", "H", ")", "2">>

FormatSides == {<<Fe, O2>>, <<Fe2O3>>, <<H2O>>, <<CO2, H2O>>}
CoefficientValues == (-1..MaxCoefficient) \cup {12}

InitFormat ==
    /\ IdleParse /\ IdleSplit /\ IdleSolve /\ IdleCalls /\ FreshBalancer
    /\ \E reactants \in FormatSides, products \in FormatSides :
          \E coefficients \in [1..(Len(reactants) + Len(products)) -> CoefficientValues] :
              formatArgs = [coefficients |-> coefficients,
                            reactants |-> reactants, products |-> products]
    /\ balanced_equation = <<>>
    /\ formatDone = FALSE

FormatEquation ==
    /\ ~formatDone
    /\ balanced_equation' = get_balanced_equation(formatArgs.coefficients,
                                                  formatArgs.reactants,
                                                  formatArgs.products)
    /\ formatDone' = TRUE
    /\ UNCHANGED <<formatArgs, outsideFormat>>

NextFormat == FormatEquation

SpecFormat == InitFormat /\ [][NextFormat]_vars

\* the compound at position k of the equation, and its coefficient
CompoundAt(k) ==
    IF k <= Len(formatArgs.reactants)
    THEN formatArgs.reactants[k]
    ELSE formatArgs.products[k - Len(formatArgs.reactants)]

\* a rendered term reads as its compound, alone when the coefficient is 1 and
\* else after the coefficient in decimal
ReadsAs(term, k) ==
    LET coef == formatArgs.coefficients[k]
        prefix == SubSeq(term, 1, Len(term) - Len(CompoundAt(k)))
        digits == IF coef < 0 THEN Tail(prefix) ELSE prefix
    IN  /\ Len(term) >= Len(CompoundAt(k))
        /\ SubSeq(term, Len(term) - Len(CompoundAt(k)) + 1, Len(term)) = CompoundAt(k)
        /\ IF coef = 1 THEN prefix = <<>>
           ELSE /\ Len(digits) >= 1
                /\ \A i \in 1..Len(digits) : digits[i] \in Digit
                /\ Len(digits) > 1 => digits[1] # "0"
                /\ int(digits) = Abs(coef)
                /\ coef < 0 => prefix[1] = "-"

\* the rendered string reads back, split at the arrow and then at the given
\* separator, as the compounds in their order, each with its own coefficient
RendersWith(separator) ==
    LET sides == str_split(balanced_equation, To)
        left == str_split(sides[1], separator)
        right == str_split(sides[2], separator)
        nr == Len(formatArgs.reactants)
    IN  /\ Len(sides) = 2
        /\ Len(left) = nr
        /\ Len(right) = Len(formatArgs.products)
        /\ \A i \in 1..Len(left) : ReadsAs(left[i], i)
        /\ \A i \in 1..Len(right) : ReadsAs(right[i], nr + i)

IsIronExample ==
    /\ formatArgs.reactants = <<Fe, O2>>
    /\ formatArgs.products = <<Fe2O3>>
    /\ formatArgs.coefficients = <<4, 3, 2>>

\* C6 as claimed: the compounds of a side are joined by "+" alone, and
\* [Fe, O2], [Fe2O3], [4, 3, 2] renders as 4Fe+3O2\to2Fe2O3.
C6_JoinedByPlusAlone ==
    formatDone =>
        /\ RendersWith(<<"+">>)
        /\ IsIronExample =>
              balanced_equation = <<"4", "F", "e", "+", "3", "O", "2">> \o To
                                   \o <<"2", "F", "e", "2", "O", "3">>

\* C6 as amended: get_balanced_equation renders the compounds in their
\* order, reactants then products, each prefixed by the coefficient at its
\* own position unless that is 1, the compounds of a side joined by " + "
\* (a plus sign between two spaces) and the sides by one \to;
\* [Fe, O2], [Fe2O3], [4, 3, 2] renders as "4Fe + 3O2\to2Fe2O3".
C6_JoinedBySpacedPlus ==
    formatDone =>
        /\ RendersWith(Plus)
        /\ IsIronExample =>
              balanced_equation = <<"4", "F", "e", " ", "+", " ", "3", "O", "2">> \o To
                                   \o <<"2", "F", "e", "2", "O", "3">>

\* the iron example, rendered
C6_Witness ==
    /\ formatDone
    /\ IsIronExample
    /\ balanced_equation = <<"4", "F", "e", " ", "+", " ", "3", "O", "2">> \o To
                             \o <<"2", "F", "e", "2", "O", "3">>

-----------------------------------------------------------------------------
(* Requests on the one balancer of src/app.py:12.  Every request runs       *)
(* balancer.balance (app.py:44) on the shared object; the steps of          *)
(* different requests interleave.  Of the two fields of the object,         *)
(* self.compounds is written by parse_equation and read by no method, and   *)
(* self.elements is neither written nor read after __init__, so it has no   *)
(* variable here.  Everything else a call uses is local to the call.        *)

Calls == 1..NumCalls

Equation(reactants, products) ==
    join(<<"+">>, reactants) \o Arrow \o join(<<"+">>, products)
SpacedEquation(reactants, products) ==
    join(<<" ", "+", " ">>, reactants) \o <<" ">> \o Arrow \o <<" ">>
        \o join(<<" ", "+", " ">>, products)

RequestEquations ==
    {SpacedEquation(<<H2, O2>>, <<H2O>>),
     Equation(<<Fe, O2>>, <<Fe2O3>>),
     H2 \o <<" ">> \o O2,
     C \o LongArrow \o O2,
     Equation(<<H2, O2>>, <<H2>>)}

Update(c, fields) ==
    calls' = [calls EXCEPT ![c] = [f \in DOMAIN NoCall |->
                 IF f \in DOMAIN fields THEN fields[f] ELSE calls[c][f]]]

\* app.py:42-44: a request arrives with its equation
Request(c) ==
    /\ calls[c].pc = "idle"
    /\ \E eq \in RequestEquations :
          Update(c, [pc |-> "parse", equation |-> eq])
    /\ UNCHANGED <<compounds, outsideCalls>>

\* algo.py:229
ParseStep(c) ==
    /\ calls[c].pc = "parse"
    /\ LET parsed == parse_equation(calls[c].equation)
       IN  IF parsed.outcome = "returned"
           THEN /\ compounds' = parsed.reactants \o parsed.products
                /\ Update(c, [pc |-> "build", reactants |-> parsed.reactants,
                              products |-> parsed.products])
           ELSE /\ Update(c, [pc |-> "raised", outcome |-> parsed.outcome])
                /\ UNCHANGED compounds
    /\ UNCHANGED outsideCalls

\* algo.py:232
BuildStep(c) ==
    /\ calls[c].pc = "build"
    /\ \E element_list \in ElementLists(AllElements(calls[c].reactants, calls[c].products)) :
          Update(c, [pc |-> "solve",
                     matrix |-> MatrixRows(calls[c].reactants, calls[c].products,
                                           element_list)])
    /\ UNCHANGED <<compounds, outsideCalls>>

\* algo.py:235
SolveStep(c) ==
    /\ calls[c].pc = "solve"
    /\ LET solution == _solve_matrix(calls[c].matrix)
       IN  IF solution.outcome = "returned"
           THEN Update(c, [pc |-> "format", coefficients |-> solution.coeffs])
           ELSE Update(c, [pc |-> "raised", outcome |-> solution.outcome])
    /\ UNCHANGED <<compounds, outsideCalls>>

\* A formatter that renders the compounds kept on the balancer.
FormatStepFromSelf(c) ==
    /\ calls[c].pc = "format"
    /\ LET nr == Len(calls[c].reactants)
       IN  IF Len(compounds) # Len(calls[c].coefficients)
           THEN Update(c, [pc |-> "raised", outcome |-> "IndexError"])
           ELSE Update(c, [pc |-> "returned", outcome |-> "returned",
                           text |-> get_balanced_equation(calls[c].coefficients,
                                        SubSeq(compounds, 1, nr),
                                        SubSeq(compounds, nr + 1, Len(compounds)))])
    /\ UNCHANGED <<compounds, outsideCalls>>

\* algo.py:238-240
FormatStep(c) ==
    /\ calls[c].pc = "format"
    /\ Update(c, [pc |-> "returned", outcome |-> "returned",
                  text |-> get_balanced_equation(calls[c].coefficients,
                                                 calls[c].reactants, calls[c].products)])
    /\ UNCHANGED <<compounds, outsideCalls>>

\* app.py:49-51: the result or the error is rendered and the request ends
Respond(c) ==
    /\ calls[c].pc \in {"returned", "raised"}
    /\ Update(c, NoCall)
    /\ UNCHANGED <<compounds, outsideCalls>>

Init == IdleParse /\ IdleSplit /\ IdleSolve /\ IdleFormat /\ IdleCalls /\ FreshBalancer

Next ==
    \E c \in Calls :
        \/ Request(c)
        \/ ParseStep(c)
        \/ BuildStep(c)
        \/ SolveStep(c)
        \/ FormatStep(c)
        \/ Respond(c)

Spec == Init /\ [][Next]_vars

\* C7: whatever the interleaving on the shared balancer, a finished balance
\* call has the outcome of the same call run alone on a fresh balancer.
C7_BalanceIsPure ==
    \A c \in Calls :
        calls[c].pc \in {"returned", "raised"} =>
            [outcome |-> calls[c].outcome, text |-> calls[c].text]
                = balance(calls[c].equation)

\* a call has returned while self.compounds holds the compounds of another
\* call, in flight with another equation
C7_Witness ==
    \E c, other \in Calls :
        /\ calls[c].pc = "returned"
        /\ calls[other].pc \in {"build", "solve", "format"}
        /\ calls[other].equation # calls[c].equation
        /\ compounds = calls[other].reactants \o calls[other].products
        /\ compounds # calls[c].reactants \o calls[c].products

-----------------------------------------------------------------------------
(* One balance call, on a fresh balancer, on every equation made of the     *)
(* compounds below.                                                         *)

BalanceCompounds == {H2, O2, H2O, Ca, CaOH2}
\* the sides of up to n different compounds, in every order
SidesUpTo(n) ==
    UNION {{side \in [1..k -> BalanceCompounds] :
               \A i, j \in 1..k : side[i] = side[j] => i = j} : k \in 1..n}

RequestGenerated ==
    /\ calls[1].pc = "idle"
    /\ \E reactants \in SidesUpTo(MaxSide), products \in SidesUpTo(MaxSide) :
          Update(1, [pc |-> "parse", equation |-> Equation(reactants, products)])
    /\ UNCHANGED <<compounds, outsideCalls>>

NextBalance ==
    \/ RequestGenerated
    \/ ParseStep(1)
    \/ BuildStep(1)
    \/ SolveStep(1)
    \/ FormatStep(1)

SpecBalance == Init /\ [][NextBalance]_vars

\* the atoms of an element on one side: the sum over the side's compounds
\* of the element's count times the compound's coefficient
RECURSIVE SideAtoms(_, _, _, _)
SideAtoms(element, side, coefficients, offset) ==
    IF Len(side) = 0 THEN 0
    ELSE Get(_parse_compound(side[Len(side)]), element) * coefficients[offset + Len(side)]
         + SideAtoms(element, SubSeq(side, 1, Len(side) - 1), coefficients, offset)

\* C1: when balance returns, every element has as many atoms, counted with
\* the returned coefficients, in the reactants as in the products.
C1_Conservation ==
    calls[1].pc = "returned" =>
        \A element \in AllElements(calls[1].reactants, calls[1].products) :
            SideAtoms(element, calls[1].reactants, calls[1].coefficients, 0)
                = SideAtoms(element, calls[1].products, calls[1].coefficients,
                            Len(calls[1].reactants))

\* Ca + H2O --> Ca(OH)2 + H2 has returned with the coefficients 1, 2, 1, 1
C1_Witness ==
    /\ calls[1].pc = "returned"
    /\ calls[1].equation = Equation(<<Ca, H2O>>, <<CaOH2, H2>>)
    /\ calls[1].coefficients = <<1, 2, 1, 1>>
    /\ calls[1].text = Ca \o <<" ", "+", " ", "2">> \o H2O \o To \o CaOH2
                          \o <<" ", "+", " ">> \o H2

=============================================================================
